---- MODULE Spec2Model ----
(***************************************************************************)
(* A model of gogroupimports (src/main.go): the import classifier          *)
(* getImportType, the grouping fold getImportGroups, and the two checks    *)
(* Run makes on the groups (areImportsGrouped, then the line-break loop).  *)
(*                                                                         *)
(* Strings are sequences of characters.  Line numbers are naturals.  A     *)
(* nil *ImportGroup is the empty sequence, a non-nil one a sequence of     *)
(* length one.                                                             *)
(***************************************************************************)
EXTENDS Integers, Sequences, FiniteSets, TLC

VARIABLES
    settings,      \* the decoded Settings value (main.go:26-30)
    goroot,        \* the paths p for which os.Stat(GOROOT/src/p) succeeds
    specs,         \* the import specs of the parsed file read so far, in file order
    importPath,    \* local of getImportGroups: the unquoted path last read
    importType,    \* local of getImportGroups: its classification
    currentGroup,  \* local of getImportGroups: nil (<<>>) or <<group>>
    groups,        \* the groups appended so far, then Run's importGroups
    pc,            \* where Run stands
    err,           \* the error Run returns
    errLine        \* the line number formatted into the line-break error

vars == <<settings, goroot, specs, importPath, importType, currentGroup,
          groups, pc, err, errLine>>

---------------------------------------------------------------------------
(* Bounds of the model. *)

\* longest import path, own-module prefix and domain string
MaxPathLen == 2
\* most internal-private domains configured
MaxDomains == 1
\* most import specs of a file
MaxSpecs == 3
\* last line an import spec may end on
MaxLine == 5
\* most lines an import spec extends beyond its first
MaxExtent == 1
\* most import specs of a file in the long-file specification
LongMaxSpecs == 5

---------------------------------------------------------------------------
(* Strings. *)

Chars == {"a", "b"}

\* the quote character that delimits an import path literal
Quote == "q"

StrOfLen(n) == [1..n -> Chars]

\* all strings of at most n characters, the empty string included
Str(n) == UNION {StrOfLen(k) : k \in 0..n}

\* valid import paths: go/parser rejects the empty path
Paths == Str(MaxPathLen) \ {<<>>}

\* strings.HasPrefix(s, prefix)
HasPrefix(s, prefix) ==
    /\ Len(s) >= Len(prefix)
    /\ SubSeq(s, 1, Len(prefix)) = prefix

\* strings.Contains(s, substr): substr occurs at some offset of s
Contains(s, substr) ==
    \E i \in 0..(Len(s) - Len(substr)) : SubSeq(s, i + 1, i + Len(substr)) = substr

\* the literal of an import path as the parser stores it in Path.Value
PathValue(path) == <<Quote>> \o path \o <<Quote>>

\* importSpec.Path.Value[1 : len(importSpec.Path.Value)-1]
Unquote(value) == SubSeq(value, 2, Len(value) - 1)

---------------------------------------------------------------------------
(* The classifier. *)

isInternalPrivateImport(path, s) ==
    \E k \in 1..Len(s.InternalPrivateDomains) :
        Contains(path, s.InternalPrivateDomains[k])

isBuiltinImport(path) == path \in goroot

\* a variant of getImportType: the own-module test ahead of the domain test
getImportType_PrefixFirst(path, s) ==
    IF HasPrefix(path, s.SelfModule) THEN "own_module"
    ELSE IF isInternalPrivateImport(path, s) THEN "internal_private"
    ELSE IF isBuiltinImport(path) THEN "builtin"
    ELSE "public_open_source_or_third_party"

getImportType(path, s) ==
    IF isInternalPrivateImport(path, s) THEN "internal_private"
    ELSE IF HasPrefix(path, s.SelfModule) THEN "own_module"
    ELSE IF isBuiltinImport(path) THEN "builtin"
    ELSE "public_open_source_or_third_party"

---------------------------------------------------------------------------
(* The grouping fold of getImportGroups. *)

\* if currentGroup != nil { groups = append(groups, *currentGroup) }
appendCurrent(grps, cur) ==
    IF cur = <<>> THEN grps ELSE Append(grps, cur[1])

newGroup(pos, end, typ) ==
    [startLine |-> pos, endLine |-> end, importType |-> typ]

\* a variant of groupStep: a new group's start and end lines exchanged
groupStep_SwappedLines(cur, grps, typ, pos, end) ==
    IF cur = <<>> \/ cur[1].importType # typ
    THEN [groups |-> appendCurrent(grps, cur),
          currentGroup |-> <<newGroup(end, pos, typ)>>]
    ELSE [groups |-> grps,
          currentGroup |-> <<[cur[1] EXCEPT !.endLine = end]>>]

\* a variant of groupStep: the open group's end line is never extended
groupStep_NoExtend(cur, grps, typ, pos, end) ==
    IF cur = <<>> \/ cur[1].importType # typ
    THEN [groups |-> appendCurrent(grps, cur),
          currentGroup |-> <<newGroup(pos, end, typ)>>]
    ELSE [groups |-> grps, currentGroup |-> cur]

\* one iteration of the loop body, after the classification
groupStep(cur, grps, typ, pos, end) ==
    IF cur = <<>> \/ cur[1].importType # typ
    THEN [groups |-> appendCurrent(grps, cur),
          currentGroup |-> <<newGroup(pos, end, typ)>>]
    ELSE [groups |-> grps,
          currentGroup |-> <<[cur[1] EXCEPT !.endLine = end]>>]

---------------------------------------------------------------------------
(* The two checks of Run. *)

expectedSequence ==
    <<"builtin", "public_open_source_or_third_party", "internal_private", "own_module">>

areImportsGrouped(grps) ==
    \A i \in 1..Len(grps) :
        ~(i <= Len(expectedSequence) /\ grps[i].importType # expectedSequence[i])

\* a variant of the line-break loop: any gap of one blank line or more passes
RECURSIVE lineBreaksFrom_AtLeastOne(_, _)
lineBreaksFrom_AtLeastOne(grps, i) ==
    IF i > Len(grps) THEN [err |-> "nil", line |-> 0]
    ELSE IF i > 1 /\ grps[i].startLine < grps[i - 1].endLine + 2
    THEN [err |-> "missing_line_break", line |-> grps[i].startLine]
    ELSE lineBreaksFrom_AtLeastOne(grps, i + 1)

\* a variant of lineBreaks, over the loop above
lineBreaks_AtLeastOne(grps) == lineBreaksFrom_AtLeastOne(grps, 1)

RECURSIVE lineBreaksFrom(_, _)
\* the loop over importGroups from index i on: the first group that does not
\* start two lines after its predecessor's end ends the loop with an error
lineBreaksFrom(grps, i) ==
    IF i > Len(grps) THEN [err |-> "nil", line |-> 0]
    ELSE IF i > 1 /\ grps[i].startLine # grps[i - 1].endLine + 2
    THEN [err |-> "missing_line_break", line |-> grps[i].startLine]
    ELSE lineBreaksFrom(grps, i + 1)

lineBreaks(grps) == lineBreaksFrom(grps, 1)

---------------------------------------------------------------------------
(* The inputs: configurations and files. *)

\* every Settings value within the bounds
AllSettings ==
    [SelfModule : Str(MaxPathLen),
     InternalPrivateDomains : UNION {[1..k -> Str(MaxPathLen)] : k \in 0..MaxDomains}]

\* the zero Settings (metaData names neither key), under which all four types
\* cannot arise, and one configuration under which they can
RunSettings ==
    { [SelfModule |-> <<>>, InternalPrivateDomains |-> <<>>],
      [SelfModule |-> <<"b", "a">>, InternalPrivateDomains |-> << <<"b", "b">> >>] }

RunGoroot == {<<"a">>}

\* the import paths of the checked files
FilePaths == {<<"a">>, <<"b">>, <<"b", "a">>, <<"b", "b">>}

\* the line the last spec read ends on (0: none read)
lastEnd == IF specs = <<>> THEN 0 ELSE specs[Len(specs)].End

\* the specs that may follow in the file: on the line the last one ends on
\* (specs separated by ";") or on any later line, each of 1..MaxExtent+1 lines
FileSpecs ==
    { sp \in [Value : {PathValue(p) : p \in FilePaths}, Pos : 1..MaxLine, End : 1..MaxLine] :
        /\ sp.Pos >= lastEnd
        /\ sp.End >= sp.Pos
        /\ sp.End <= sp.Pos + MaxExtent }

\* the specs that may follow in a long file: one line each, on the next line
\* or after one blank line
LongFileSpecs ==
    { [Value |-> PathValue(p), Pos |-> lastEnd + gap, End |-> lastEnd + gap] :
        p \in FilePaths, gap \in {1, 2} }

---------------------------------------------------------------------------
(* Run, step by step. *)

Init ==
    /\ settings \in RunSettings
    /\ goroot = RunGoroot
    /\ specs = <<>>
    /\ importPath = <<>>
    /\ importType = ""
    /\ currentGroup = <<>>
    /\ groups = <<>>
    /\ pc = "group"
    /\ err = "nil"
    /\ errLine = 0

\* one iteration of the loop over the import specs (main.go:73-94)
readImportSpec(sp) ==
    LET path == Unquote(sp.Value)
        typ == getImportType(path, settings)
        step == groupStep(currentGroup, groups, typ, sp.Pos, sp.End)
    IN /\ specs' = Append(specs, sp)
       /\ importPath' = path
       /\ importType' = typ
       /\ currentGroup' = step.currentGroup
       /\ groups' = step.groups
       /\ UNCHANGED <<settings, goroot, pc, err, errLine>>

ImportSpecStep ==
    /\ pc = "group"
    /\ Len(specs) < MaxSpecs
    /\ \E sp \in FileSpecs : readImportSpec(sp)

LongImportSpecStep ==
    /\ pc = "group"
    /\ Len(specs) < LongMaxSpecs
    /\ \E sp \in LongFileSpecs : readImportSpec(sp)

\* the loops end: the open group is appended and the groups returned
EndOfDecls ==
    /\ pc = "group"
    /\ groups' = appendCurrent(groups, currentGroup)
    /\ pc' = "grouped"
    /\ UNCHANGED <<settings, goroot, specs, importPath, importType, currentGroup,
                   err, errLine>>

\* if !areImportsGrouped(importGroups) { return error }
CheckGrouped ==
    /\ pc = "grouped"
    /\ IF areImportsGrouped(groups)
       THEN pc' = "linebreaks" /\ err' = err
       ELSE pc' = "done" /\ err' = "not_grouped"
    /\ UNCHANGED <<settings, goroot, specs, importPath, importType, currentGroup,
                   groups, errLine>>

\* the line-break loop and the final return
CheckLineBreaks ==
    /\ pc = "linebreaks"
    /\ err' = lineBreaks(groups).err
    /\ errLine' = lineBreaks(groups).line
    /\ pc' = "done"
    /\ UNCHANGED <<settings, goroot, specs, importPath, importType, currentGroup,
                   groups>>

Next == ImportSpecStep \/ EndOfDecls \/ CheckGrouped \/ CheckLineBreaks

Spec == Init /\ [][Next]_vars

LongNext == LongImportSpecStep \/ EndOfDecls \/ CheckGrouped \/ CheckLineBreaks

\* Run on files of up to LongMaxSpecs one-line specs, under the configuration
\* that yields all four types
LongInit ==
    /\ Init
    /\ settings.SelfModule # <<>>

SpecLong == LongInit /\ [][LongNext]_vars

---------------------------------------------------------------------------
(* getImportType alone, on every path and configuration within the bounds. *)

ClassifyInit ==
    /\ settings \in AllSettings
    /\ importPath \in Paths
    /\ goroot \in {{}, {importPath}}
    /\ specs = <<>>
    /\ importType = ""
    /\ currentGroup = <<>>
    /\ groups = <<>>
    /\ pc = "classify"
    /\ err = "nil"
    /\ errLine = 0

Classify ==
    /\ pc = "classify"
    /\ importType' = getImportType(importPath, settings)
    /\ pc' = "classified"
    /\ UNCHANGED <<settings, goroot, specs, importPath, currentGroup, groups,
                   err, errLine>>

ClassifyNext == Classify

SpecClassify == ClassifyInit /\ [][ClassifyNext]_vars

---------------------------------------------------------------------------
(* The vocabulary of the claims, stated apart from the code's operators. *)

Builtin == "builtin"
ThirdParty == "public_open_source_or_third_party"
InternalPrivate == "internal_private"
OwnModule == "own_module"

UngroupedImports == "not_grouped"
MissingBlankLine == "missing_line_break"
Success == "nil"

\* the position of a category in the canonical order
Rank(c) ==
    CASE c = Builtin -> 1
      [] c = ThirdParty -> 2
      [] c = InternalPrivate -> 3
      [] c = OwnModule -> 4

\* the categories of a group sequence are strictly increasing in canonical
\* order: no two out of order and none in more than one group
StrictlyIncreasing(grps) ==
    \A i, j \in 1..Len(grps) :
        i < j => Rank(grps[i].importType) < Rank(grps[j].importType)

\* the adjacent pairs that break the one-blank-line rule, by the later index
Offending(grps) ==
    {i \in 2..Len(grps) : grps[i].startLine # grps[i - 1].endLine + 2}

WellSpaced(grps) == Offending(grps) = {}

FirstOffending(grps) ==
    CHOOSE i \in Offending(grps) : \A j \in Offending(grps) : i <= j

\* sub occurs in s
Occurs(sub, s) ==
    \E i, j \in 0..Len(s) : i <= j /\ SubSeq(s, i + 1, j) = sub

SomeDomainOccurs ==
    \E k \in DOMAIN settings.InternalPrivateDomains :
        Occurs(settings.InternalPrivateDomains[k], importPath)

\* pre is a non-empty prefix of s
NonEmptyPrefix(pre, s) ==
    /\ pre # <<>>
    /\ Len(pre) <= Len(s)
    /\ \A i \in 1..Len(pre) : s[i] = pre[i]

---------------------------------------------------------------------------
(* The claims about Run's two checks. *)

\* C1: every group sequence, of any length, whose categories are not strictly
\* increasing in the canonical order is rejected with UngroupedImports.
C1_NotIncreasingIsUngrouped ==
    (pc = "done" /\ ~StrictlyIncreasing(groups)) => err = UngroupedImports

\* C2: a group sequence whose present categories each form one group, in
\* canonical relative order (some possibly absent), with every adjacent pair
\* one blank line apart, is accepted.
C2_PartialCanonicalAccepted ==
    (pc = "done" /\ StrictlyIncreasing(groups) /\ WellSpaced(groups))
        => err = Success

\* C3: a single group passes both checks whatever its category.
C3_SingleGroupAccepted ==
    (pc = "done" /\ Len(groups) = 1) => err = Success

\* C4: once the sequence check has passed, Run succeeds exactly when every
\* adjacent pair of groups is one blank line apart (start = previous end + 2),
\* and otherwise reports MissingBlankLine before the start line of the first
\* offending group; zero blank lines and two or more are both rejected.
C4_SpacingDecidesAfterSequence ==
    (pc = "done" /\ err # UngroupedImports) =>
        /\ err = Success <=> WellSpaced(groups)
        /\ ~WellSpaced(groups) =>
              /\ err = MissingBlankLine
              /\ errLine = groups[FirstOffending(groups)].startLine

\* C4's case: three groups pass the sequence check, both adjacent pairs offend
\* (the first with no blank line, the second with two or more), and the line
\* reported is the second group's
C4_Witness ==
    /\ pc = "done"
    /\ Len(groups) = 3
    /\ groups[2].startLine = groups[1].endLine + 1
    /\ groups[3].startLine >= groups[2].endLine + 3
    /\ err = MissingBlankLine
    /\ errLine = groups[2].startLine

\* C10: a group sequence that violates both the canonical category order and
\* the spacing rule is reported as UngroupedImports, and MissingBlankLine is
\* reported only for sequences that pass the sequence check.
C10_SequenceBeforeSpacing ==
    pc = "done" =>
        /\ (~StrictlyIncreasing(groups) /\ ~WellSpaced(groups))
              => err = UngroupedImports
        /\ err = MissingBlankLine => areImportsGrouped(groups)

---------------------------------------------------------------------------
(* The claims about the grouping fold. *)

\* the categories of the specs read, in file order
specTypes ==
    [i \in 1..Len(specs) |-> getImportType(Unquote(specs[i].Value), settings)]

\* the last index of the run of one category that starts at index i of t
RunEnd(t, i) ==
    CHOOSE j \in i..Len(t) :
        /\ \A k \in i..j : t[k] = t[i]
        /\ j = Len(t) \/ t[j + 1] # t[i]

RECURSIVE MaximalRuns(_, _)
\* the maximal runs of the specs from index i on, t being their categories:
\* each from the first line of its first spec to the last line of its last
MaximalRuns(t, i) ==
    IF i > Len(t) THEN <<>>
    ELSE <<[startLine |-> specs[i].Pos,
            endLine |-> specs[RunEnd(t, i)].End,
            importType |-> t[i]]>> \o MaximalRuns(t, RunEnd(t, i) + 1)

\* C5: the groups returned are exactly the maximal runs of consecutive specs
\* of one category, in file order: one group per run, from the first line of
\* the run's first spec to the last line of its last spec; adjacent groups
\* differ in category; two runs of one category separated by another stay
\* distinct; no specs, no groups.
C5_GroupsAreMaximalRuns ==
    pc \in {"grouped", "linebreaks", "done"} =>
        /\ groups = MaximalRuns(specTypes, 1)
        /\ \A k \in 1..(Len(groups) - 1) :
              groups[k].importType # groups[k + 1].importType
        /\ specs = <<>> => groups = <<>>

\* C5's case: a category that appears, disappears and reappears yields three
\* groups, the first and the third of one category
C5_Witness ==
    /\ pc = "grouped"
    /\ Len(specs) = 3
    /\ Len(groups) = 3
    /\ groups[1].importType = groups[3].importType

\* the specs are in file order and well formed: each starts no later than it
\* ends, and after the one before it ends
SpecsWellFormed ==
    /\ \A i \in 1..Len(specs) : specs[i].Pos <= specs[i].End
    /\ \A i \in 1..(Len(specs) - 1) : specs[i].End < specs[i + 1].Pos

\* every group emitted so far, the open one included while the fold runs
emitted ==
    IF pc = "group" THEN appendCurrent(groups, currentGroup) ELSE groups

\* C9: on well-formed specs, at every step of the fold and in its result,
\* every group has startLine <= endLine and each group ends before the next
\* one starts.
C9_GroupsOrderedDisjoint ==
    SpecsWellFormed =>
        /\ \A k \in 1..Len(emitted) : emitted[k].startLine <= emitted[k].endLine
        /\ \A k \in 1..(Len(emitted) - 1) :
              emitted[k].endLine < emitted[k + 1].startLine

\* C9's case: well-formed specs, one of them of several lines, folded into a
\* closed group of several specs and a following open one
C9_Witness ==
    /\ pc = "group"
    /\ SpecsWellFormed
    /\ Len(specs) = 3
    /\ Len(groups) = 1
    /\ currentGroup # <<>>
    /\ currentGroup[1].startLine < currentGroup[1].endLine
    /\ groups[1].endLine = specs[2].End

---------------------------------------------------------------------------
(* The claims about the classifier. *)

\* C6: an empty own-module prefix never matches; a path is OwnModule only
\* when the prefix is non-empty, is a prefix of the path, and no
\* internal-private domain matched.
C6_EmptyPrefixNeverMatches ==
    (pc = "classified" /\ importType = OwnModule) =>
        /\ NonEmptyPrefix(settings.SelfModule, importPath)
        /\ ~SomeDomainOccurs

\* C7: a path in which some configured internal-private domain occurs is
\* InternalPrivate, also when it starts with the own-module prefix or names a
\* standard-library entry.
C7_DomainTakesPrecedence ==
    (pc = "classified" /\ SomeDomainOccurs) => importType = InternalPrivate

\* C7's case: a domain occurs in a path that also starts with the non-empty
\* own-module prefix and exists under the standard-library root
C7_Witness ==
    /\ pc = "classified"
    /\ SomeDomainOccurs
    /\ NonEmptyPrefix(settings.SelfModule, importPath)
    /\ importPath \in goroot
    /\ importType = InternalPrivate

\* C8: classification never fails; a path that matches no domain and does not
\* start with a non-empty own-module prefix is Builtin exactly when the
\* standard-library lookup succeeds and ThirdParty whenever it fails.
C8_LookupDecidesBuiltin ==
    pc = "classified" =>
        /\ importType \in {Builtin, ThirdParty, InternalPrivate, OwnModule}
        /\ (~SomeDomainOccurs /\ ~NonEmptyPrefix(settings.SelfModule, importPath)) =>
              /\ importType = Builtin <=> importPath \in goroot
              /\ importPath \notin goroot => importType = ThirdParty

====
